---- MODULE Spec2Model ----
(***************************************************************************)
(* A model of the jobboard application (ImaginaryLandscape/iscape-jobboard) *)
(*                                                                         *)
(*   jobboard/__init__.py   the JOBBOARD_* settings and their defaults      *)
(*   jobboard/models.py     NotifyEmail, Position, JobPost, ApplicantPost   *)
(*   jobboard/forms.py      the two submission forms and their cleaning     *)
(*   jobboard/views.py      index, job_list, applicant_list, submit_job,    *)
(*                          submit_applicant                               *)
(*   jobboard/admin.py      the administrator's edits of the four tables    *)
(*                                                                         *)
(* Text values are sequences of one-character strings, so that length       *)
(* limits and split('\n') are computed, not assumed.  Dates are day         *)
(* numbers, timestamps are clock ticks.                                     *)
(***************************************************************************)
EXTENDS Integers, Sequences, FiniteSets, TLC

VARIABLES
    settings,     \* django.conf.settings after jobboard/__init__.py has run
    now,          \* the clock, in ticks (datetime.datetime.now())
    positions,    \* the Position table: the set of primary keys
    notify,       \* the NotifyEmail table: the set of primary keys
    posts,        \* the JobPost and ApplicantPost tables: kind -> sequence of rows
    reqs,         \* the submission requests in flight: slot -> request state
    outbox,       \* the emails handed to the mail transport, in order
    shown,        \* the last response of a listing view
    adminApproved \* history: the posts an administrator has set approved on

vars == <<settings, now, positions, notify, posts, reqs, outbox, shown, adminApproved>>

----------------------------------------------------------------------------
(* Bounds of the model *)

\* the clock stops after this many ticks
MaxNow == 1
\* the resolution of datetime.datetime.now(): clock ticks per calendar day
TicksPerDay == 1
\* the two post tables together hold at most this many rows
MaxPosts == 2

----------------------------------------------------------------------------
(* Text *)

NL == "\n"

\* a text of n copies of the character c
Rep(c, n) == [i \in 1..n |-> c]

Digits == <<"0", "1", "2", "3", "4", "5", "6", "7", "8", "9">>

IsDigit(c) == \E d \in 1..10 : Digits[d] = c

DigitValue(c) == (CHOOSE d \in 1..10 : Digits[d] = c) - 1

\* int(text): the number a decimal text denotes, -1 when it is not a number
RECURSIVE ParseIntFrom(_, _, _)
ParseIntFrom(s, i, acc) ==
    IF i > Len(s) THEN acc
    ELSE ParseIntFrom(s, i + 1, acc * 10 + DigitValue(s[i]))

ParseInt(s) ==
    IF s # <<>> /\ \A i \in 1..Len(s) : IsDigit(s[i])
    THEN ParseIntFrom(s, 1, 0)
    ELSE -1

\* the clean_<name> methods left out: the whole text is kept
FirstLineMissesSplit(s) == s

\* value.split('\n')[0]: the text before the first newline
FirstLine(s) ==
    IF \E i \in 1..Len(s) : s[i] = NL
    THEN SubSeq(s, 1, (CHOOSE i \in 1..Len(s) :
                          s[i] = NL /\ \A j \in 1..(i - 1) : s[j] # NL) - 1)
    ELSE s

----------------------------------------------------------------------------
(* jobboard/__init__.py: the settings *)

DefaultPostsExpireDays == 30
DefaultApplicantsPerPage == 15
DefaultJobsPerPage == 15
DefaultApplicantsOnIndex == 5
DefaultJobsOnIndex == 5

\* django's own default for SERVER_EMAIL
ServerEmail == "root@localhost"

\* the project's settings module before the package is loaded: nothing of the
\* jobboard configured, or a site that configures all of it (one job to a
\* page and on the index, two applicants)
SiteSettings ==
    [JOBBOARD_FROM_EMAIL |-> "jobs@example.com",
     JOBBOARD_POSTS_EXPIRE_DAYS |-> 1,
     JOBBOARD_APPLICANTS_PER_PAGE |-> 2,
     JOBBOARD_JOBS_PER_PAGE |-> 1,
     JOBBOARD_APPLICANTS_ON_INDEX |-> 2,
     JOBBOARD_JOBS_ON_INDEX |-> 1]

NothingConfigured == [k \in {} |-> 0]

PreConfigured == {NothingConfigured, SiteSettings}

\* settings.name = default, without the hasattr test
SettingOverwritten(pre, name, default) == default

\* if not hasattr(settings, name): settings.name = default
Setting(pre, name, default) ==
    IF name \in DOMAIN pre THEN pre[name] ELSE default

LoadSettings(pre) ==
    [JOBBOARD_FROM_EMAIL |-> Setting(pre, "JOBBOARD_FROM_EMAIL", ServerEmail),
     JOBBOARD_POSTS_EXPIRE_DAYS |->
         Setting(pre, "JOBBOARD_POSTS_EXPIRE_DAYS", DefaultPostsExpireDays),
     JOBBOARD_APPLICANTS_PER_PAGE |->
         Setting(pre, "JOBBOARD_APPLICANTS_PER_PAGE", DefaultApplicantsPerPage),
     JOBBOARD_JOBS_PER_PAGE |->
         Setting(pre, "JOBBOARD_JOBS_PER_PAGE", DefaultJobsPerPage),
     JOBBOARD_APPLICANTS_ON_INDEX |->
         Setting(pre, "JOBBOARD_APPLICANTS_ON_INDEX", DefaultApplicantsOnIndex),
     JOBBOARD_JOBS_ON_INDEX |->
         Setting(pre, "JOBBOARD_JOBS_ON_INDEX", DefaultJobsOnIndex)]

----------------------------------------------------------------------------
(* jobboard/forms.py: the submission forms *)

Kinds == {"job", "applicant"}

PostersNameMaxLength == 80
WorkHoursMaxLength == 80
FirstNameMaxLength == 30
LastNameMaxLength == 40
PhoneNumberMaxLength == 25

Required == "This field is required."
InvalidChoice == "Select a valid choice. That choice is not one of the available choices."
InvalidEmail == "Enter a valid e-mail address."
TooLong == "Ensure this value has at most the allowed number of characters."
NoError == ""

\* request.POST: a function from the posted keys to texts; a key may be absent
Empty(data, f) == f \notin DOMAIN data \/ data[f] = <<>>

Value(data, f) == IF f \in DOMAIN data THEN data[f] ELSE <<>>

\* max_length measured on the first line of the value only
CharFieldErrorLimitsFirstLine(data, f, required, max_length) ==
    IF Empty(data, f) THEN (IF required THEN Required ELSE NoError)
    ELSE IF Len(FirstLine(data[f])) > max_length THEN TooLong
    ELSE NoError

\* forms.CharField(max_length=n, required=r)
CharFieldError(data, f, required, max_length) ==
    IF Empty(data, f) THEN (IF required THEN Required ELSE NoError)
    ELSE IF Len(data[f]) > max_length THEN TooLong
    ELSE NoError

\* required=False given to every Textarea field
TextFieldErrorNeverRequired(data, f, required) == NoError

\* forms.CharField(required=r, widget=forms.Textarea): no length limit
TextFieldError(data, f, required) ==
    IF Empty(data, f) /\ required THEN Required ELSE NoError

\* a choice field that takes any posted value
ModelChoiceFieldAnyChoice(data, f, queryset) ==
    IF Empty(data, f) THEN Required ELSE NoError

\* ModelChoiceField(..., required=False): an omitted choice is no error
ModelChoiceFieldNotRequired(data, f, queryset) ==
    IF Empty(data, f) THEN NoError
    ELSE IF ParseInt(data[f]) \notin queryset THEN InvalidChoice
    ELSE NoError

\* forms.ModelChoiceField(models.Position.objects.all()): required, and the
\* posted text must be the primary key of a row of the queryset
ModelChoiceFieldError(data, f, queryset) ==
    IF Empty(data, f) THEN Required
    ELSE IF ParseInt(data[f]) \notin queryset THEN InvalidChoice
    ELSE NoError

\* the address syntax forms.EmailField accepts, reduced to local@domain: one
\* "@" after some text, then labels separated by single dots, at least two
\* of them, the last of two characters or more
EmailValid(s) ==
    \E i \in 2..Len(s) :
        /\ s[i] = "@"
        /\ \A j \in 1..Len(s) : s[j] = "@" => j = i
        /\ \E d \in (i + 2)..(Len(s) - 2) :
              /\ s[d] = "."
              /\ \A j \in (d + 1)..Len(s) : s[j] # "."
        /\ s[i + 1] # "."
        /\ \A j \in (i + 1)..(Len(s) - 1) : ~(s[j] = "." /\ s[j + 1] = ".")

\* an address field that takes any text
EmailFieldNotValidated(data, f) == NoError

\* forms.EmailField(required=False)
EmailFieldError(data, f) ==
    IF Empty(data, f) THEN NoError
    ELSE IF ~EmailValid(data[f]) THEN InvalidEmail
    ELSE NoError

\* forms.BooleanField(required=False): a checkbox, false when not posted
BooleanFieldValue(data, f) ==
    ~Empty(data, f) /\ data[f] # <<"F", "a", "l", "s", "e">>

JobFormFields ==
    {"posters_name", "work_hours", "description", "position", "email",
     "contact_information"}

ApplicantFormFields ==
    {"first_name", "last_name", "phone_number", "position", "email", "resume",
     "full_time", "part_time", "other_time"}

\* class JobPost(forms.Form): the error of each declared field
JobFieldError(data, f) ==
    CASE f = "posters_name" -> CharFieldError(data, f, TRUE, PostersNameMaxLength)
      [] f = "work_hours" -> CharFieldError(data, f, FALSE, WorkHoursMaxLength)
      [] f = "description" -> TextFieldError(data, f, FALSE)
      [] f = "position" -> ModelChoiceFieldError(data, f, positions)
      [] f = "email" -> EmailFieldError(data, f)
      [] f = "contact_information" -> TextFieldError(data, f, TRUE)

\* class ApplicantPost(forms.Form): the error of each declared field
ApplicantFieldError(data, f) ==
    CASE f = "first_name" -> CharFieldError(data, f, TRUE, FirstNameMaxLength)
      [] f = "last_name" -> CharFieldError(data, f, TRUE, LastNameMaxLength)
      [] f = "phone_number" -> CharFieldError(data, f, TRUE, PhoneNumberMaxLength)
      [] f = "position" -> ModelChoiceFieldError(data, f, positions)
      [] f = "email" -> EmailFieldError(data, f)
      [] f = "resume" -> TextFieldError(data, f, TRUE)
      [] OTHER -> NoError

FieldError(kind, data, f) ==
    IF kind = "job" THEN JobFieldError(data, f) ELSE ApplicantFieldError(data, f)

FormFields(kind) == IF kind = "job" THEN JobFormFields ELSE ApplicantFormFields

\* form.errors: the fields in error, each with its message
FormErrors(kind, data) ==
    [f \in {g \in FormFields(kind) : FieldError(kind, data, g) # NoError}
        |-> FieldError(kind, data, f)]

\* form.is_valid()
IsValid(kind, data) == DOMAIN FormErrors(kind, data) = {}

\* JobPost.cleaned_data, clean_posters_name included
JobCleanedData(data) ==
    [posters_name |-> FirstLine(Value(data, "posters_name")),
     work_hours |-> Value(data, "work_hours"),
     description |-> Value(data, "description"),
     position |-> ParseInt(Value(data, "position")),
     email |-> Value(data, "email"),
     contact_information |-> Value(data, "contact_information")]

\* ApplicantPost.cleaned_data, clean_first_name and clean_last_name included
ApplicantCleanedData(data) ==
    [first_name |-> FirstLine(Value(data, "first_name")),
     last_name |-> FirstLine(Value(data, "last_name")),
     phone_number |-> Value(data, "phone_number"),
     position |-> ParseInt(Value(data, "position")),
     email |-> Value(data, "email"),
     resume |-> Value(data, "resume"),
     full_time |-> BooleanFieldValue(data, "full_time"),
     part_time |-> BooleanFieldValue(data, "part_time"),
     other_time |-> BooleanFieldValue(data, "other_time")]

CleanedData(kind, data) ==
    IF kind = "job" THEN JobCleanedData(data) ELSE ApplicantCleanedData(data)

----------------------------------------------------------------------------
(* jobboard/models.py: the clock, the tables and the model defaults *)

\* datetime.date of a timestamp
DateOf(t) == t \div TicksPerDay

\* datetime.date.today()
Today == DateOf(now)

\* the last day the clock of the model reaches
MaxDay == DateOf(MaxNow)

\* the timedelta left out of the sum
CalculatePostExpiresForgetsDays == Today

\* calculate_post_expires(): today + JOBBOARD_POSTS_EXPIRE_DAYS
calculate_post_expires == Today + settings.JOBBOARD_POSTS_EXPIRE_DAYS

\* the primary key standing for "no Position" (None)
NoPosition == 0

\* Position.objects.all()[0] returned however many rows there are
DefaultPositionFirstRow ==
    IF positions # {} THEN CHOOSE p \in positions : \A q \in positions : p <= q
    ELSE NoPosition

\* default_position(): the only Position when there is exactly one
default_position ==
    IF Cardinality(positions) = 1 THEN CHOOSE p \in positions : TRUE
    ELSE NoPosition

\* the rows the administrator can register
PositionIds == {1, 2}
NotifyIds == {1, 2}

\* NotifyEmail.email of each row
NotifyAddress == <<"linux@holla.com", "boss@example.com">>

\* approved = models.BooleanField(default=True)
ApprovedDefaultTrue == TRUE

\* approved = models.BooleanField(default=False)
ApprovedDefault == FALSE

\* models.JobPost(): a new instance with the field defaults
NewJobPost ==
    [id |-> 0,
     approved |-> ApprovedDefault,
     when_posted |-> now,
     expiration_date |-> calculate_post_expires,
     posters_name |-> <<>>,
     work_hours |-> <<>>,
     description |-> <<>>,
     position |-> default_position,
     email |-> <<>>,
     contact_information |-> <<>>]

\* models.ApplicantPost(): a new instance with the field defaults
NewApplicantPost ==
    [id |-> 0,
     approved |-> ApprovedDefault,
     when_posted |-> now,
     expiration_date |-> calculate_post_expires,
     first_name |-> <<>>,
     last_name |-> <<>>,
     phone_number |-> <<>>,
     email |-> <<>>,
     position |-> default_position,
     resume |-> <<>>,
     full_time |-> FALSE,
     part_time |-> FALSE]

\* sep.join(parts)
RECURSIVE Join(_, _)
Join(sep, parts) ==
    IF parts = <<>> THEN <<>>
    ELSE IF Len(parts) = 1 THEN parts[1]
    ELSE parts[1] \o sep \o Join(sep, Tail(parts))

FullTimeText == <<"f", "u", "l", "l", " ", "t", "i", "m", "e">>
PartTimeText == <<"p", "a", "r", "t", " ", "t", "i", "m", "e">>
UnspecifiedText == <<"u", "n", "s", "p", "e", "c", "i", "f", "i", "e", "d">>

\* the kinds joined in the order of the docstring's example, part time first
HoursStringPartTimeFirst(row) ==
    LET hours == (IF row.part_time THEN <<PartTimeText>> ELSE <<>>)
                    \o (IF row.full_time THEN <<FullTimeText>> ELSE <<>>)
    IN IF hours # <<>> THEN Join(<<",", " ">>, hours) ELSE UnspecifiedText

\* ApplicantPost.hours_string(): the kinds of hours selected, comma-joined,
\* or 'unspecified'
hours_string(row) ==
    LET hours == (IF row.full_time THEN <<FullTimeText>> ELSE <<>>)
                    \o (IF row.part_time THEN <<PartTimeText>> ELSE <<>>)
    IN IF hours # <<>> THEN Join(<<",", " ">>, hours) ELSE UnspecifiedText

\* a set of primary keys as the list a queryset yields, in primary key order
RECURSIVE Ordered(_)
Ordered(S) ==
    IF S = {} THEN <<>>
    ELSE LET m == CHOOSE x \in S : \A y \in S : x <= y
         IN <<m>> \o Ordered(S \ {m})

\* the rows of both post tables
TotalPosts == Len(posts["job"]) + Len(posts["applicant"])

----------------------------------------------------------------------------
(* jobboard/views.py: submit_job and submit_applicant *)

\* shown holds the response of the listing request served by the last step;
\* after any other step there is none
NoListing ==
    [view |-> "none", today |-> 0, page |-> 0, jobs |-> <<>>, applicants |-> <<>>]

Slots == {1, 2}

InFlight(r) == r.pc \notin {"idle", "done"}

\* the state of a request: where it is in the view (pc), what was posted
\* (method, kind, data), the view's locals (post, recipients), its answer
\* (response, errors), and what it has done so far: the row it stored (id),
\* its save() and send_mail() calls (saved, sent), the NotifyEmail rows it
\* last found in the table (counted, registered), the day it started, and
\* the position models.JobPost() / models.ApplicantPost() gave the new
\* instance before the view assigned the posted one (instance_position)
IdleReq ==
    [pc |-> "idle", method |-> "none", kind |-> "job", data |-> <<>>,
     post |-> <<>>, instance_position |-> NoPosition,
     id |-> 0, counted |-> 0, registered |-> {},
     recipients |-> <<>>, response |-> "none", errors |-> <<>>,
     saved |-> 0, sent |-> 0, started |-> 0]

\* views.py 148-158: the instance built from job_form.cleaned_data
JobPostFrom(cleaned) ==
    [NewJobPost EXCEPT
        !.posters_name = cleaned.posters_name,
        !.work_hours = cleaned.work_hours,
        !.description = cleaned.description,
        !.email = cleaned.email,
        !.contact_information = cleaned.contact_information,
        !.position = cleaned.position,
        !.expiration_date = calculate_post_expires]

\* views.py 228-241: the instance built from applicant_form.cleaned_data
\* (position is assigned after when_posted, at line 241)
ApplicantPostFrom(cleaned) ==
    [NewApplicantPost EXCEPT
        !.first_name = cleaned.first_name,
        !.last_name = cleaned.last_name,
        !.phone_number = cleaned.phone_number,
        !.email = cleaned.email,
        !.resume = cleaned.resume,
        !.full_time = cleaned.full_time,
        !.part_time = cleaned.part_time,
        !.expiration_date = calculate_post_expires,
        !.position = cleaned.position]

PostFrom(kind, cleaned) ==
    IF kind = "job" THEN JobPostFrom(cleaned) ELSE ApplicantPostFrom(cleaned)

\* POST to submit_job / submit_applicant, up to the expiration date: the form
\* is validated; an invalid form is rendered again with its errors, a valid
\* one fills a new model instance (views.py 137-158, 217-239)
Post(s, kind, data) ==
    /\ ~InFlight(reqs[s])
    /\ TotalPosts + Cardinality({t \in Slots : InFlight(reqs[t])}) < MaxPosts
    /\ reqs' = [reqs EXCEPT ![s] =
          IF ~IsValid(kind, data)
          THEN [IdleReq EXCEPT !.pc = "done", !.method = "POST",
                               !.kind = kind, !.data = data,
                               !.response = "form",
                               !.errors = FormErrors(kind, data)]
          ELSE [IdleReq EXCEPT !.pc = "when_posted", !.method = "POST",
                               !.kind = kind, !.data = data,
                               !.post = PostFrom(kind, CleanedData(kind, data)),
                               !.instance_position =
                                   IF kind = "job" THEN NewJobPost.position
                                   ELSE NewApplicantPost.position,
                               !.started = Today]]
    /\ shown' = NoListing
    /\ UNCHANGED <<settings, now, positions, notify, posts, outbox, adminApproved>>

\* post.when_posted = datetime.datetime.now()  (views.py 159, 240)
StampWhenPosted(s) ==
    /\ reqs[s].pc = "when_posted"
    /\ reqs' = [reqs EXCEPT ![s].post.when_posted = now, ![s].pc = "save"]
    /\ shown' = NoListing
    /\ UNCHANGED <<settings, now, positions, notify, posts, outbox, adminApproved>>

\* the save() call left out of the view
SaveSkipped(s) ==
    /\ reqs[s].pc = "save"
    /\ reqs' = [reqs EXCEPT ![s].pc = "count"]
    /\ shown' = NoListing
    /\ UNCHANGED <<settings, now, positions, notify, posts, outbox, adminApproved>>

\* save() with the primary key 1 set: the first row is overwritten
SaveOverwritesFirstRow(s) ==
    /\ reqs[s].pc = "save"
    /\ posts' = [posts EXCEPT ![reqs[s].kind] =
                    <<[reqs[s].post EXCEPT !.id = 1]>> \o
                        (IF @ = <<>> THEN <<>> ELSE Tail(@))]
    /\ reqs' = [reqs EXCEPT ![s].post.id = 1, ![s].id = 1, ![s].saved = @ + 1,
                            ![s].pc = "count"]
    /\ shown' = NoListing
    /\ UNCHANGED <<settings, now, positions, notify, outbox, adminApproved>>

\* post.save(): the row is inserted and gets the next primary key
\* (views.py 161, 243)
Save(s) ==
    /\ reqs[s].pc = "save"
    /\ LET pk == Len(posts[reqs[s].kind]) + 1
       IN /\ posts' = [posts EXCEPT ![reqs[s].kind] =
                         Append(@, [reqs[s].post EXCEPT !.id = pk])]
          /\ reqs' = [reqs EXCEPT ![s].post.id = pk,
                                  ![s].id = pk,
                                  ![s].saved = @ + 1,
                                  ![s].pc = "count"]
    /\ shown' = NoListing
    /\ UNCHANGED <<settings, now, positions, notify, outbox, adminApproved>>

\* if models.NotifyEmail.objects.count(): ... else the redirect
\* (views.py 164 and 179, 246 and 262)
CountNotify(s) ==
    /\ reqs[s].pc = "count"
    /\ reqs' = [reqs EXCEPT
          ![s].counted = Cardinality(notify),
          ![s].registered = notify,
          ![s].pc = IF Cardinality(notify) # 0 THEN "recipients" ELSE "done",
          ![s].response = IF Cardinality(notify) # 0 THEN "none" ELSE "redirect"]
    /\ shown' = NoListing
    /\ UNCHANGED <<settings, now, positions, notify, posts, outbox, adminApproved>>

\* recipients = [notify.email for notify in models.NotifyEmail.objects.all()]
\* (views.py 173-174, 256-257)
RecipientsOf(rows) == [i \in 1..Len(Ordered(rows)) |-> NotifyAddress[Ordered(rows)[i]]]

ReadRecipients(s) ==
    /\ reqs[s].pc = "recipients"
    /\ reqs' = [reqs EXCEPT ![s].recipients = RecipientsOf(notify),
                            ![s].registered = notify,
                            ![s].pc = "send"]
    /\ shown' = NoListing
    /\ UNCHANGED <<settings, now, positions, notify, posts, outbox, adminApproved>>

\* every message rendered from the first row of the table, not from the new
\* post
MessageAboutFirstRow(s) ==
    [from_email |-> settings.JOBBOARD_FROM_EMAIL,
     to |-> reqs[s].recipients,
     kind |-> reqs[s].kind,
     id |-> 1]

\* the sender left to django's default, settings.SERVER_EMAIL
MessageFromServerEmail(s) ==
    [from_email |-> ServerEmail,
     to |-> reqs[s].recipients,
     kind |-> reqs[s].kind,
     id |-> reqs[s].id]

\* the message send_mail builds
Message(s) ==
    [from_email |-> settings.JOBBOARD_FROM_EMAIL,
     to |-> reqs[s].recipients,
     kind |-> reqs[s].kind,
     id |-> reqs[s].id]

\* one send_mail call for each recipient instead of one for all
SendMailPerRecipient(s) ==
    /\ reqs[s].pc = "send"
    /\ outbox' = outbox \o [i \in 1..Len(reqs[s].recipients) |->
                               [Message(s) EXCEPT !.to = <<reqs[s].recipients[i]>>]]
    /\ reqs' = [reqs EXCEPT ![s].pc = "done", ![s].response = "redirect",
                            ![s].sent = Len(reqs[s].recipients)]
    /\ shown' = NoListing
    /\ UNCHANGED <<settings, now, positions, notify, posts, adminApproved>>

\* a module-level flag shared by the requests: only the first notification
\* of the process is sent
SendMailOncePerProcess(s) ==
    /\ reqs[s].pc = "send"
    /\ IF reqs[s].recipients = <<>> \/ outbox # <<>>
       THEN /\ outbox' = outbox
            /\ reqs' = [reqs EXCEPT ![s].pc = "done", ![s].response = "redirect"]
       ELSE /\ outbox' = Append(outbox, Message(s))
            /\ reqs' = [reqs EXCEPT ![s].pc = "done", ![s].response = "redirect",
                                    ![s].sent = @ + 1]
    /\ shown' = NoListing
    /\ UNCHANGED <<settings, now, positions, notify, posts, adminApproved>>

\* send_mail(subject, body, JOBBOARD_FROM_EMAIL, recipients,
\* fail_silently=False) returns, then the redirect (views.py 175-180, 258-263).
\* django sends nothing, and opens no connection, for an empty recipient list.
SendMail(s) ==
    /\ reqs[s].pc = "send"
    /\ IF reqs[s].recipients = <<>>
       THEN /\ outbox' = outbox
            /\ reqs' = [reqs EXCEPT ![s].pc = "done", ![s].response = "redirect"]
       ELSE /\ outbox' = Append(outbox, Message(s))
            /\ reqs' = [reqs EXCEPT ![s].pc = "done", ![s].response = "redirect",
                                    ![s].sent = @ + 1]
    /\ shown' = NoListing
    /\ UNCHANGED <<settings, now, positions, notify, posts, adminApproved>>

\* the failure handled by deleting the post that was just saved
SendMailFailsRollsBack(s) ==
    /\ reqs[s].pc = "send"
    /\ reqs[s].recipients # <<>>
    /\ posts' = [posts EXCEPT ![reqs[s].kind] = SubSeq(@, 1, Len(@) - 1)]
    /\ reqs' = [reqs EXCEPT ![s].pc = "done", ![s].response = "error"]
    /\ shown' = NoListing
    /\ UNCHANGED <<settings, now, positions, notify, outbox, adminApproved>>

\* fail_silently=True: the failure is swallowed and the redirect returned
SendMailFailsSilently(s) ==
    /\ reqs[s].pc = "send"
    /\ reqs[s].recipients # <<>>
    /\ reqs' = [reqs EXCEPT ![s].pc = "done", ![s].response = "redirect"]
    /\ shown' = NoListing
    /\ UNCHANGED <<settings, now, positions, notify, posts, outbox, adminApproved>>

\* send_mail raises (the mail transport fails): the exception leaves the view
\* and the request ends in a server error (views.py 175-177, 258-260)
SendMailFails(s) ==
    /\ reqs[s].pc = "send"
    /\ reqs[s].recipients # <<>>
    /\ reqs' = [reqs EXCEPT ![s].pc = "done", ![s].response = "error"]
    /\ shown' = NoListing
    /\ UNCHANGED <<settings, now, positions, notify, posts, outbox, adminApproved>>

\* the empty instance of the form saved when the page is asked for
GetFormSavesBlankPost(s, kind) ==
    /\ ~InFlight(reqs[s])
    /\ TotalPosts < MaxPosts
    /\ reqs' = [reqs EXCEPT ![s] =
          [IdleReq EXCEPT !.pc = "done", !.method = "GET", !.kind = kind,
                          !.response = "form"]]
    /\ posts' = [posts EXCEPT ![kind] =
          Append(@, [(IF kind = "job" THEN NewJobPost ELSE NewApplicantPost)
                        EXCEPT !.id = Len(posts[kind]) + 1])]
    /\ shown' = NoListing
    /\ UNCHANGED <<settings, now, positions, notify, outbox, adminApproved>>

\* GET of submit_job / submit_applicant: the empty form (views.py 181-189,
\* 264-271)
GetForm(s, kind) ==
    /\ ~InFlight(reqs[s])
    /\ reqs' = [reqs EXCEPT ![s] =
          [IdleReq EXCEPT !.pc = "done", !.method = "GET", !.kind = kind,
                          !.response = "form"]]
    /\ shown' = NoListing
    /\ UNCHANGED <<settings, now, positions, notify, posts, outbox, adminApproved>>

\* thank_you(request): the rendered page (views.py 274-280)
ThankYou(s) ==
    /\ ~InFlight(reqs[s])
    /\ reqs' = [reqs EXCEPT ![s] =
          [IdleReq EXCEPT !.pc = "done", !.method = "GET",
                          !.response = "thank_you"]]
    /\ shown' = NoListing
    /\ UNCHANGED <<settings, now, positions, notify, posts, outbox, adminApproved>>

----------------------------------------------------------------------------
(* The environment: the clock and the administrator (jobboard/admin.py) *)

\* Time passes.  A request is served within a day of its start, so it sees
\* at most one change of date.
Tick ==
    /\ now < MaxNow
    /\ \A s \in Slots :
          InFlight(reqs[s]) => DateOf(now + 1) <= reqs[s].started + 1
    /\ now' = now + 1
    /\ shown' = NoListing
    /\ UNCHANGED <<settings, positions, notify, posts, reqs, outbox, adminApproved>>

\* admin.site.register(models.NotifyEmail): a recipient is added
AdminAddNotify(n) ==
    /\ n \notin notify
    /\ notify' = notify \cup {n}
    /\ shown' = NoListing
    /\ UNCHANGED <<settings, now, positions, posts, reqs, outbox, adminApproved>>

\* admin.site.register(models.NotifyEmail): a recipient is deleted
AdminDeleteNotify(n) ==
    /\ n \in notify
    /\ notify' = notify \ {n}
    /\ shown' = NoListing
    /\ UNCHANGED <<settings, now, positions, posts, reqs, outbox, adminApproved>>

----------------------------------------------------------------------------
(* The posted data the submission workflow is driven with *)

GoodJob ==
    [posters_name |-> <<"A">>, position |-> <<"1">>,
     contact_information |-> <<"c", "a", "l", "l">>]

\* a two-line name, every optional field, and a key the form does not declare
FullJob ==
    [posters_name |-> <<"A", NL, "B">>, work_hours |-> <<"9">>,
     description |-> <<"d">>, position |-> <<"2">>,
     email |-> <<"l", "@", "l", ".", "l", "o">>, contact_information |-> <<"c">>,
     approved |-> <<"o", "n">>]

\* no name, and a position that does not exist
BadJob ==
    [position |-> <<"9", "9", "9", "9">>, contact_information |-> <<"c">>]

GoodApplicant ==
    [first_name |-> <<"F">>, last_name |-> <<"L">>, phone_number |-> <<"5">>,
     position |-> <<"1">>, resume |-> <<"r">>]

FullApplicant ==
    [first_name |-> <<"F", NL, "G">>, last_name |-> <<"L">>,
     phone_number |-> <<"5">>, position |-> <<"2">>,
     email |-> <<"l", "@", "l", ".", "l", "o">>, resume |-> <<"r">>,
     full_time |-> <<"o", "n">>, approved |-> <<"o", "n">>]

\* no resume, and an address that is none
BadApplicant ==
    [first_name |-> <<"F">>, last_name |-> <<"L">>, phone_number |-> <<"5">>,
     position |-> <<"1">>, email |-> <<"l">>]

SampleData(kind) ==
    IF kind = "job" THEN {GoodJob, FullJob, BadJob}
    ELSE {GoodApplicant, FullApplicant, BadApplicant}

----------------------------------------------------------------------------
(* The submission workflow with its notification *)

Init ==
    /\ settings \in {LoadSettings(pre) : pre \in PreConfigured}
    /\ now = 0
    /\ positions = PositionIds
    /\ notify = {}
    /\ posts = [k \in Kinds |-> <<>>]
    /\ reqs = [s \in Slots |-> IdleReq]
    /\ outbox = <<>>
    /\ shown = NoListing
    /\ adminApproved = {}

\* the requests of this specification are served one at a time
MainSlots == {1}

Next ==
    \/ \E s \in MainSlots, kind \in Kinds : \E data \in SampleData(kind) :
          Post(s, kind, data)
    \/ \E s \in MainSlots, kind \in Kinds : GetForm(s, kind)
    \/ \E s \in MainSlots : StampWhenPosted(s)
    \/ \E s \in MainSlots : Save(s)
    \/ \E s \in MainSlots : CountNotify(s)
    \/ \E s \in MainSlots : ReadRecipients(s)
    \/ \E s \in MainSlots : SendMail(s)
    \/ \E s \in MainSlots : SendMailFails(s)
    \/ \E n \in NotifyIds : AdminAddNotify(n)
    \/ \E n \in NotifyIds : AdminDeleteNotify(n)

Spec == Init /\ [][Next]_vars

----------------------------------------------------------------------------
(* jobboard/admin.py: the administrator edits a stored post *)

\* the Approval Status fieldset: approved is set or cleared
AdminSetApproved(kind, i, b) ==
    /\ i \in 1..Len(posts[kind])
    /\ posts[kind][i].approved # b
    /\ posts' = [posts EXCEPT ![kind][i].approved = b]
    /\ adminApproved' = IF b THEN adminApproved \cup {<<kind, i>>}
                        ELSE adminApproved
    /\ shown' = NoListing
    /\ UNCHANGED <<settings, now, positions, notify, reqs, outbox>>

\* the Dates fieldset: expiration_date is set to a day the clock can reach
AdminSetExpiration(kind, i, d) ==
    /\ i \in 1..Len(posts[kind])
    /\ posts[kind][i].expiration_date # d
    /\ posts' = [posts EXCEPT ![kind][i].expiration_date = d]
    /\ shown' = NoListing
    /\ UNCHANGED <<settings, now, positions, notify, reqs, outbox, adminApproved>>

----------------------------------------------------------------------------
(* jobboard/views.py: index, job_list and applicant_list *)

\* the filter without approved=True
LiveFilterIgnoresApproved(row) == row.expiration_date >= Today

\* the filter without expiration_date__gte
LiveFilterIgnoresExpiration(row) == row.approved

\* expiration_date__gt: a post is dropped on its expiration date already
LiveFilterExpiresOnTheDay(row) == row.approved /\ row.expiration_date > Today

\* filter(approved=True, expiration_date__gte=datetime.date.today())
LiveFilter(row) == row.approved /\ row.expiration_date >= Today

\* the primary keys of the rows of a table the filter keeps
Filtered(kind) == {i \in 1..Len(posts[kind]) : LiveFilter(posts[kind][i])}

\* no Meta.ordering: the database yields the rows in any order
QuerySetsUnordered(kind, S) ==
    {q \in [1..Cardinality(S) -> S] :
        \A a, b \in 1..Cardinality(S) : a # b => q[a] # q[b]}

\* Meta.ordering = ['-when_posted']: the orders in which the database may
\* yield the rows S of a table; rows posted at the same instant come in any order
QuerySets(kind, S) ==
    {q \in [1..Cardinality(S) -> S] :
        /\ \A a, b \in 1..Cardinality(S) : a # b => q[a] # q[b]
        /\ \A a \in 1..(Cardinality(S) - 1) :
              posts[kind][q[a]].when_posted >= posts[kind][q[a + 1]].when_posted}

\* the rows of a queryset
Rows(kind, q) == [a \in 1..Len(q) |-> posts[kind][q[a]]]

\* the slice left out
SliceIgnoresLimit(q, n) == q

\* queryset[-n:], the last n rows
SliceTakesLast(q, n) ==
    IF Len(q) <= n THEN q ELSE SubSeq(q, Len(q) - n + 1, Len(q))

\* queryset[:n]
Slice(q, n) == IF Len(q) <= n THEN q ELSE SubSeq(q, 1, n)

\* index(request)
Index ==
    /\ \E qj \in QuerySets("job", Filtered("job")),
          qa \in QuerySets("applicant", Filtered("applicant")) :
          shown' = [view |-> "index", today |-> Today, page |-> 1,
                    jobs |-> Slice(Rows("job", qj),
                                   settings.JOBBOARD_JOBS_ON_INDEX),
                    applicants |-> Slice(Rows("applicant", qa),
                                         settings.JOBBOARD_APPLICANTS_ON_INDEX)]
    /\ UNCHANGED <<settings, now, positions, notify, posts, reqs, outbox,
                   adminApproved>>

\* Paginator.num_pages: at least one page, the first may be empty
NumPages(n, per_page) ==
    IF n = 0 THEN 1 ELSE (n + per_page - 1) \div per_page

\* Paginator.page(number).object_list
PageOf(q, number, per_page) ==
    SubSeq(q, (number - 1) * per_page + 1,
           IF number * per_page < Len(q) THEN number * per_page ELSE Len(q))

\* job_list(request) and applicant_list(request): object_list with
\* paginate_by; a page past the last one is answered 404
ListView(kind, number) ==
    /\ \E q \in QuerySets(kind, Filtered(kind)) :
          LET per_page == IF kind = "job" THEN settings.JOBBOARD_JOBS_PER_PAGE
                          ELSE settings.JOBBOARD_APPLICANTS_PER_PAGE
              found == number <= NumPages(Len(q), per_page)
              page == IF found THEN PageOf(Rows(kind, q), number, per_page)
                      ELSE <<>>
          IN shown' = [view |-> IF ~found THEN "404"
                                ELSE IF kind = "job" THEN "job_list"
                                ELSE "applicant_list",
                       today |-> Today, page |-> number,
                       jobs |-> IF kind = "job" THEN page ELSE <<>>,
                       applicants |-> IF kind = "applicant" THEN page ELSE <<>>]
    /\ UNCHANGED <<settings, now, positions, notify, posts, reqs, outbox,
                   adminApproved>>

\* the page numbers a visitor asks for
PageNumbers == 1..MaxPosts

----------------------------------------------------------------------------
(* The listings: submissions, the administrator's approvals and edits, and
   the passing of days; no recipient is registered *)

InitList ==
    /\ settings = LoadSettings(SiteSettings)
    /\ now = 0
    /\ positions = PositionIds
    /\ notify = {}
    /\ posts = [k \in Kinds |-> <<>>]
    /\ reqs = [s \in Slots |-> IdleReq]
    /\ outbox = <<>>
    /\ shown = NoListing
    /\ adminApproved = {}

ListData(kind) == IF kind = "job" THEN {GoodJob} ELSE {GoodApplicant}

NextList ==
    \/ \E s \in MainSlots, kind \in Kinds : \E data \in ListData(kind) :
          Post(s, kind, data)
    \/ \E s \in MainSlots : StampWhenPosted(s)
    \/ \E s \in MainSlots : Save(s)
    \/ \E s \in MainSlots : CountNotify(s)
    \/ Tick
    \/ \E kind \in Kinds, i \in 1..MaxPosts, b \in BOOLEAN :
          AdminSetApproved(kind, i, b)
    \/ \E kind \in Kinds, i \in 1..MaxPosts, d \in 0..MaxDay :
          AdminSetExpiration(kind, i, d)
    \/ Index
    \/ \E kind \in Kinds, number \in PageNumbers : ListView(kind, number)

SpecList == InitList /\ [][NextList]_vars

----------------------------------------------------------------------------
(* The forms: one request with any posted data, against a store that holds
   no row or one earlier job post, with no recipient or two registered *)

\* a key the request does not post
Absent == <<"(absent)">>

\* the posted data of a choice of one value, or Absent, per key
Posted(choice) ==
    [f \in {g \in DOMAIN choice : choice[g] # Absent} |-> choice[f]]

On == <<"o", "n">>

NameValues(max_length) ==
    {Absent, <<>>, <<"A">>, <<"A", NL, "B">>, <<NL, "B">>,
     Rep("x", max_length), Rep("x", max_length + 1),
     Rep("x", max_length) \o <<NL, "y">>}

ShortNameValues(max_length) ==
    {Absent, <<"L">>, <<"L", NL, "M">>, Rep("x", max_length + 1)}

PositionValues == {Absent, <<"1">>, <<"2">>, <<"9", "9", "9", "9">>, <<"x">>}

EmailValues ==
    {Absent, <<>>, <<"l", "@", "l", ".", "l", "o">>, <<"l", "@", "l">>, <<"l">>}

WorkHoursValues == {Absent, <<"9">>, Rep("h", WorkHoursMaxLength + 1)}

PhoneValues == {Absent, <<"5">>, Rep("5", PhoneNumberMaxLength + 1)}

CheckboxValues == {Absent, On, <<"F", "a", "l", "s", "e">>}

\* a POST to submit_job with any choice of values
PostAnyJob(s) ==
    \E n \in NameValues(PostersNameMaxLength), w \in WorkHoursValues,
       d \in {Absent, <<"d">>}, p \in PositionValues, e \in EmailValues,
       c \in {Absent, <<>>, <<"c">>}, a \in {Absent, On} :
        Post(s, "job",
             Posted([posters_name |-> n, work_hours |-> w, description |-> d,
                     position |-> p, email |-> e, contact_information |-> c,
                     approved |-> a]))

\* a POST to submit_applicant with any choice of values
PostAnyApplicant(s) ==
    \E n \in NameValues(FirstNameMaxLength),
       l \in ShortNameValues(LastNameMaxLength), t \in PhoneValues,
       p \in {Absent, <<"1">>, <<"9", "9", "9", "9">>}, e \in EmailValues,
       r \in {Absent, <<"r">>}, ft \in CheckboxValues, pt \in {Absent, On},
       a \in {Absent, On} :
        Post(s, "applicant",
             Posted([first_name |-> n, last_name |-> l, phone_number |-> t,
                     position |-> p, email |-> e, resume |-> r,
                     full_time |-> ft, part_time |-> pt, approved |-> a]))

\* the job post an earlier request has stored
EarlierJob == [JobPostFrom(JobCleanedData(GoodJob)) EXCEPT !.id = 1]

InitForm ==
    /\ settings = LoadSettings(NothingConfigured)
    /\ now = 0
    /\ positions \in {{}, {1}, {1, 2}}
    /\ notify \in {{}, NotifyIds}
    /\ posts \in {[k \in Kinds |-> <<>>]} \cup
                 (IF 1 \in positions
                  THEN {[k \in Kinds |-> IF k = "job" THEN <<EarlierJob>> ELSE <<>>]}
                  ELSE {})
    /\ reqs = [s \in Slots |-> IdleReq]
    /\ outbox = <<>>
    /\ shown = NoListing
    /\ adminApproved = {}

NextForm ==
    \/ reqs[1].pc = "idle" /\ PostAnyJob(1)
    \/ reqs[1].pc = "idle" /\ PostAnyApplicant(1)
    \/ \E kind \in Kinds : reqs[1].pc = "idle" /\ GetForm(1, kind)
    \/ StampWhenPosted(1)
    \/ Save(1)
    \/ CountNotify(1)
    \/ ReadRecipients(1)
    \/ SendMail(1)

SpecForm == InitForm /\ [][NextForm]_vars

----------------------------------------------------------------------------
(* Properties *)

\* the posts of a kind in the response of a listing view
Shown(kind) == IF kind = "job" THEN shown.jobs ELSE shown.applicants

IsListing == shown.view \in {"index", "job_list", "applicant_list"}

\* the live posts of a table: approved and not past their expiration date
LiveIds(kind) ==
    {i \in 1..Len(posts[kind]) :
        posts[kind][i].approved /\ posts[kind][i].expiration_date >= Today}

Min(a, b) == IF a <= b THEN a ELSE b

\* the row a request has stored is in its table, with the values it saved
Stored(s) ==
    /\ reqs[s].saved = 1
    /\ reqs[s].id \in 1..Len(posts[reqs[s].kind])
    /\ posts[reqs[s].kind][reqs[s].id] = reqs[s].post

\* C1: every post the index view, the job list view or the applicant list
\* view returns is a stored post with approved = true and
\* expiration_date >= today.
C1_ListingsReturnOnlyLivePosts ==
    IsListing =>
        \A k \in Kinds : \A a \in 1..Len(Shown(k)) :
            /\ Shown(k)[a].id \in 1..Len(posts[k])
            /\ posts[k][Shown(k)[a].id] = Shown(k)[a]
            /\ Shown(k)[a].approved = TRUE
            /\ Shown(k)[a].expiration_date >= shown.today
            /\ shown.today = Today

\* C1 witness: the index returns a job while the table also holds an
\* approved job whose expiration date has passed.
C1_Witness ==
    /\ shown.view = "index"
    /\ Len(shown.jobs) = 1
    /\ \E i \in 1..Len(posts["job"]) :
          posts["job"][i].approved /\ posts["job"][i].expiration_date < Today

\* C2: a post is returned by a listing only after an administrator has set
\* its approved flag: every listed post is one the administrator approved.
C2_ListedOnlyAfterAdminApproval ==
    IsListing =>
        \A k \in Kinds : \A a \in 1..Len(Shown(k)) :
            <<k, Shown(k)[a].id>> \in adminApproved

\* C2 witness: a list view returns an approved applicant post while another
\* stored post, never approved, is not returned.
C2_Witness ==
    /\ shown.view = "applicant_list"
    /\ Len(shown.applicants) = 1
    /\ \E k \in Kinds : \E i \in 1..Len(posts[k]) : <<k, i>> \notin adminApproved

\* C3: every row a submission adds to a table has approved = false when it
\* is added, whatever was posted (an 'approved' key included).
C3_FreshPostIsUnapproved ==
    [][\A k \in Kinds :
          \A i \in (Len(posts[k]) + 1)..Len(posts'[k]) :
              posts'[k][i].approved = FALSE]_vars

\* C3 witness: a request that posted an 'approved' value has stored its row.
C3_Witness ==
    /\ reqs[1].saved = 1
    /\ reqs[1].kind = "applicant"
    /\ "approved" \in DOMAIN reqs[1].data
    /\ Len(posts["applicant"]) = 1

\* C4: the expiration_date of a row a submission stores is the date of its
\* when_posted plus JOBBOARD_POSTS_EXPIRE_DAYS, give or take one day.
C4_ExpirationWithinOneDayOfWindow ==
    [][\A k \in Kinds :
          \A i \in (Len(posts[k]) + 1)..Len(posts'[k]) :
              posts'[k][i].expiration_date
                  - (DateOf(posts'[k][i].when_posted)
                     + settings.JOBBOARD_POSTS_EXPIRE_DAYS) \in -1..1]_vars

\* C4 witness: a stored row whose request straddled a day boundary, the
\* expiration date computed on one day and when_posted on the next.
C4_Witness ==
    \E s \in Slots :
        /\ Stored(s)
        /\ reqs[s].post.expiration_date
              # DateOf(reqs[s].post.when_posted) + settings.JOBBOARD_POSTS_EXPIRE_DAYS

\* the messages in the outbox that announce a post
MessagesAbout(kind, id) ==
    {i \in 1..Len(outbox) : outbox[i].kind = kind /\ outbox[i].id = id}

\* C5: a successful submission sends no email when the request found the
\* NotifyEmail table empty, and otherwise exactly one email, addressed to
\* all the recipients the request found registered (the table as the request
\* last read it).
C5_OneEmailToAllRecipients ==
    \A s \in Slots :
        (reqs[s].pc = "done" /\ reqs[s].method = "POST"
            /\ reqs[s].response = "redirect") =>
            IF reqs[s].registered = {}
            THEN /\ reqs[s].sent = 0
                 /\ MessagesAbout(reqs[s].kind, reqs[s].id) = {}
            ELSE /\ reqs[s].sent = 1
                 /\ Cardinality(MessagesAbout(reqs[s].kind, reqs[s].id)) = 1
                 /\ \A i \in MessagesAbout(reqs[s].kind, reqs[s].id) :
                       /\ Len(outbox[i].to) = Cardinality(reqs[s].registered)
                       /\ {outbox[i].to[j] : j \in 1..Len(outbox[i].to)}
                             = {NotifyAddress[n] : n \in reqs[s].registered}

\* C5 witness: a submission has ended in the redirect with two recipients
\* registered and one email sent.
C5_Witness ==
    \E s \in Slots :
        /\ reqs[s].pc = "done"
        /\ reqs[s].response = "redirect"
        /\ Cardinality(reqs[s].registered) = 2
        /\ reqs[s].sent = 1

\* the fields a submission must fill
RequiredFields(kind) ==
    IF kind = "job" THEN {"posters_name", "position", "contact_information"}
    ELSE {"first_name", "last_name", "phone_number", "position", "resume"}

\* the required fields a request left out
Missing(r) ==
    {f \in RequiredFields(r.kind) : f \notin DOMAIN r.data \/ r.data[f] = <<>>}

\* C6: a POST that leaves out a required field is answered with the form,
\* 'This field is required.' on each such field, and stores nothing: the
\* tables are as they were before the request.
C6_MissingRequiredFieldIsRejected ==
    (reqs[1].method = "POST" /\ Missing(reqs[1]) # {}) =>
        /\ reqs[1].pc = "done"
        /\ reqs[1].response = "form"
        /\ \A f \in Missing(reqs[1]) :
              f \in DOMAIN reqs[1].errors /\ reqs[1].errors[f] = Required
        /\ reqs[1].saved = 0
        /\ posts["applicant"] = <<>>
        /\ posts["job"] \in {<<>>, <<EarlierJob>>}

\* C6 witness: a POST to submit_job with none of the three required fields
\* has been answered, and the table holds the earlier job post.
C6_Witness ==
    /\ reqs[1].method = "POST"
    /\ reqs[1].kind = "job"
    /\ Cardinality(Missing(reqs[1])) = 3
    /\ reqs[1].pc = "done"
    /\ posts["job"] = <<EarlierJob>>

\* C7: the index returns min(JOBBOARD_JOBS_ON_INDEX, live job posts) jobs
\* and min(JOBBOARD_APPLICANTS_ON_INDEX, live applicant posts) applicants.
C7_IndexReturnsMinOfLimitAndLive ==
    shown.view = "index" =>
        /\ Len(shown.jobs) =
              Min(settings.JOBBOARD_JOBS_ON_INDEX, Cardinality(LiveIds("job")))
        /\ Len(shown.applicants) =
              Min(settings.JOBBOARD_APPLICANTS_ON_INDEX,
                  Cardinality(LiveIds("applicant")))

\* C7 witness: the index is served while more live job posts exist than
\* JOBBOARD_JOBS_ON_INDEX.
C7_Witness ==
    /\ shown.view = "index"
    /\ Cardinality(LiveIds("job")) > settings.JOBBOARD_JOBS_ON_INDEX
    /\ Len(shown.jobs) >= 1

\* C8: a POST with valid data that does not end in a mail failure ends in
\* the redirect, and a request that ends in the redirect has called save()
\* once and its row is in the table of its kind.
C8_ValidPostStoresThenRedirects ==
    \A s \in Slots :
        (reqs[s].pc = "done" /\ reqs[s].method = "POST") =>
            /\ (IsValid(reqs[s].kind, reqs[s].data) /\ reqs[s].response # "error")
                  => reqs[s].response = "redirect"
            /\ reqs[s].response = "redirect" => Stored(s)

\* C8 witness: a valid POST has ended in the redirect after its
\* notification was sent.
C8_Witness ==
    \E s \in Slots :
        /\ reqs[s].pc = "done"
        /\ reqs[s].response = "redirect"
        /\ reqs[s].sent = 1
        /\ reqs[s].kind = "applicant"

\* p is the part of v before its first newline
IsFirstLineOf(p, v) ==
    /\ Len(p) <= Len(v)
    /\ \A i \in 1..Len(p) : p[i] = v[i] /\ p[i] # NL
    /\ Len(p) = Len(v) \/ v[Len(p) + 1] = NL

\* a checkbox as the submitter set it: ticked, or left out
Ticked(data, f) == f \in DOMAIN data /\ data[f] = On
Unticked(data, f) == f \notin DOMAIN data \/ data[f] = <<>>

\* the fields of a stored row that are not names equal the posted values
OtherFieldsAsPosted(r, row) ==
    /\ row.email = Value(r.data, "email")
    /\ Len(Value(r.data, "position")) = 1
    /\ Digits[row.position + 1] = Value(r.data, "position")[1]
    /\ IF r.kind = "job"
       THEN /\ row.work_hours = Value(r.data, "work_hours")
            /\ row.description = Value(r.data, "description")
            /\ row.contact_information = Value(r.data, "contact_information")
       ELSE /\ row.phone_number = Value(r.data, "phone_number")
            /\ row.resume = Value(r.data, "resume")
            /\ Ticked(r.data, "full_time") => row.full_time = TRUE
            /\ Unticked(r.data, "full_time") => row.full_time = FALSE
            /\ Ticked(r.data, "part_time") => row.part_time = TRUE
            /\ Unticked(r.data, "part_time") => row.part_time = FALSE

\* C9 as stated: every user-supplied field of the stored row, the names
\* included, equals the posted value.
C9_StoredFieldsEqualPosted ==
    reqs[1].saved = 1 =>
        LET r == reqs[1]
            row == posts[r.kind][r.id]
        IN /\ OtherFieldsAsPosted(r, row)
           /\ IF r.kind = "job"
              THEN row.posters_name = Value(r.data, "posters_name")
              ELSE /\ row.first_name = Value(r.data, "first_name")
                   /\ row.last_name = Value(r.data, "last_name")

\* C9 amended: the stored row's fields equal the posted values, except that
\* posters_name, first_name and last_name hold the posted text up to its
\* first newline.
C9_StoredFieldsEqualPostedFirstLineOfNames ==
    reqs[1].saved = 1 =>
        LET r == reqs[1]
            row == posts[r.kind][r.id]
        IN /\ OtherFieldsAsPosted(r, row)
           /\ IF r.kind = "job"
              THEN IsFirstLineOf(row.posters_name, Value(r.data, "posters_name"))
              ELSE /\ IsFirstLineOf(row.first_name, Value(r.data, "first_name"))
                   /\ IsFirstLineOf(row.last_name, Value(r.data, "last_name"))

\* C9 witness: a stored applicant post whose posted first and last names
\* both had two lines.
C9_Witness ==
    /\ reqs[1].saved = 1
    /\ reqs[1].kind = "applicant"
    /\ reqs[1].data["first_name"] = <<"A", NL, "B">>
    /\ reqs[1].data["last_name"] = <<"L", NL, "M">>
    /\ Len(posts["applicant"]) = 1

\* C10: a request at the send step has stored its row, a message enters the
\* outbox only for a stored row, and the step in which the send fails leaves
\* both tables as they are, the request's row still there as saved.
C10_SaveBeforeSendAndFailureKeepsData ==
    [][\A s \in Slots :
          /\ reqs[s].pc = "send" => Stored(s)
          /\ \A i \in (Len(outbox) + 1)..Len(outbox') :
                outbox'[i].id \in 1..Len(posts[outbox'[i].kind])
          /\ (reqs[s].pc = "send" /\ reqs'[s].response = "error") =>
                /\ posts' = posts
                /\ posts'[reqs[s].kind][reqs[s].id] = reqs[s].post]_vars

\* C10 witness: a send has failed for the second stored post: the request
\* ended in the error and both rows are in the tables.
C10_Witness ==
    \E s \in Slots :
        /\ reqs[s].response = "error"
        /\ Stored(s)
        /\ TotalPosts = 2

\* C11 as stated: no request has ended in an error while its post is stored
\* and no notification about that post was delivered.
C11_NoPartialFailure ==
    \A s \in Slots :
        ~ /\ reqs[s].pc = "done"
          /\ reqs[s].response = "error"
          /\ Stored(s)
          /\ MessagesAbout(reqs[s].kind, reqs[s].id) = {}

\* C12: a step in which the send of a request fails (the request leaves the
\* send step and nothing enters the outbox though recipients were read) ends
\* the request in an error, not in the redirect, with no send counted; and no
\* message about the post of a request that ended in an error is sent later.
C12_MailFailureIsSurfaced ==
    [][\A s \in Slots :
          /\ (reqs[s].pc = "send" /\ reqs[s].recipients # <<>>
                /\ reqs'[s].pc # "send" /\ outbox' = outbox) =>
                /\ reqs'[s].pc = "done"
                /\ reqs'[s].response = "error"
                /\ reqs'[s].sent = 0
          /\ reqs[s].response = "error" =>
                \A i \in (Len(outbox) + 1)..Len(outbox') :
                    ~(outbox'[i].kind = reqs[s].kind /\ outbox'[i].id = reqs[s].id)]_vars

\* C12 witness: a valid applicant submission with two recipients registered
\* has ended in the error, and the outbox is empty.
C12_Witness ==
    \E s \in Slots :
        /\ reqs[s].pc = "done"
        /\ reqs[s].response = "error"
        /\ reqs[s].kind = "applicant"
        /\ Cardinality(reqs[s].registered) = 2
        /\ outbox = <<>>

\* the posted text is the primary key of a Position row
DenotesPosition(text) == \E p \in positions : text = <<Digits[p + 1]>>

\* C13: a POST whose position is posted but is not the key of an existing
\* Position is answered with the form, 'Select a valid choice...' on
\* position, and stores and sends nothing; and the position of every stored
\* post is an existing Position.
C13_UnknownPositionIsRejected ==
    /\ (reqs[1].method = "POST" /\ ~Empty(reqs[1].data, "position")
          /\ ~DenotesPosition(reqs[1].data["position"])) =>
          /\ reqs[1].pc = "done"
          /\ reqs[1].response = "form"
          /\ "position" \in DOMAIN reqs[1].errors
          /\ reqs[1].errors["position"] = InvalidChoice
          /\ reqs[1].saved = 0
          /\ reqs[1].sent = 0
          /\ outbox = <<>>
          /\ posts["applicant"] = <<>>
          /\ posts["job"] \in {<<>>, <<EarlierJob>>}
    /\ \A k \in Kinds : \A i \in 1..Len(posts[k]) : posts[k][i].position \in positions

\* C13 witness: with Position 1 alone in the table and recipients registered,
\* a job POST whose only fault is position '2' has been answered.
C13_Witness ==
    /\ reqs[1].method = "POST"
    /\ reqs[1].kind = "job"
    /\ reqs[1].pc = "done"
    /\ positions = {1}
    /\ notify # {}
    /\ Value(reqs[1].data, "position") = <<"2">>
    /\ DOMAIN reqs[1].errors = {"position"}

\* every field of the form but email is free of errors
ValidButForEmail(r) ==
    \A f \in FormFields(r.kind) \ {"email"} : FieldError(r.kind, r.data, f) = NoError

\* C14: a POST whose email is posted and is not a valid address is answered
\* with the form, 'Enter a valid e-mail address.' on email, and stores
\* nothing; a POST without email, or with an empty one, and valid otherwise
\* is accepted: it gets no error, and once past save() its row is stored with
\* an empty email.
C14_EmailValidIfPresent ==
    reqs[1].method = "POST" =>
        /\ (~Empty(reqs[1].data, "email") /\ ~EmailValid(reqs[1].data["email"])) =>
              /\ reqs[1].pc = "done"
              /\ reqs[1].response = "form"
              /\ "email" \in DOMAIN reqs[1].errors
              /\ reqs[1].errors["email"] = InvalidEmail
              /\ reqs[1].saved = 0
              /\ posts["applicant"] = <<>>
              /\ posts["job"] \in {<<>>, <<EarlierJob>>}
        /\ (Empty(reqs[1].data, "email") /\ ValidButForEmail(reqs[1])) =>
              /\ reqs[1].response # "form"
              /\ DOMAIN reqs[1].errors = {}
              /\ reqs[1].pc \in {"count", "recipients", "send", "done"} =>
                    Stored(1) /\ posts[reqs[1].kind][reqs[1].id].email = <<>>

\* C14 witness: a job POST whose only fault is an email without a dotted
\* domain has been answered, the table holding the earlier post that was
\* accepted without an email.
C14_Witness ==
    /\ reqs[1].method = "POST"
    /\ reqs[1].kind = "job"
    /\ reqs[1].pc = "done"
    /\ Value(reqs[1].data, "email") = <<"l", "@", "l">>
    /\ DOMAIN reqs[1].errors = {"email"}
    /\ posts["job"] = <<EarlierJob>>
    /\ EarlierJob.email = <<>>

\* the view name of the full list of a kind
ListViewOf(kind) == IF kind = "job" THEN "job_list" ELSE "applicant_list"

PerPage(kind) ==
    IF kind = "job" THEN settings.JOBBOARD_JOBS_PER_PAGE
    ELSE settings.JOBBOARD_APPLICANTS_PER_PAGE

\* the primary keys of the posts of a page
IdsOf(page) == {page[a].id : a \in 1..Len(page)}

\* the number of posts on page n of m posts, per_page to a page
PageSize(m, n, per_page) ==
    IF m <= (n - 1) * per_page THEN 0 ELSE Min(per_page, m - (n - 1) * per_page)

\* C15 as stated: every page the full list view of a kind serves holds live
\* posts only (expiration_date = today included), each once, at most
\* JOBBOARD_JOBS_PER_PAGE / JOBBOARD_APPLICANTS_PER_PAGE of them and as many
\* as that page of the live posts has; and the pages together hold every live
\* post exactly once: two different pages served one after the other, with
\* nothing changed in between, share no post.
C15_FullListPagesHoldLivePostsOnce ==
    [][\A k \in Kinds :
          shown'.view = ListViewOf(k) =>
              LET page == IF k = "job" THEN shown'.jobs ELSE shown'.applicants
              IN /\ IdsOf(page) \subseteq LiveIds(k)
                 /\ Cardinality(IdsOf(page)) = Len(page)
                 /\ Len(page) <= PerPage(k)
                 /\ Len(page) =
                       PageSize(Cardinality(LiveIds(k)), shown'.page, PerPage(k))
                 /\ (shown.view = ListViewOf(k) /\ shown.page # shown'.page) =>
                       IdsOf(Shown(k)) \cap IdsOf(page) = {}]_vars

----------------------------------------------------------------------------
(* Every kind of request against a store that holds an approved job post:
   submissions, valid and not, with their notification, the form pages, the
   listings, and the administrator's approvals *)

InitFrame ==
    /\ settings = LoadSettings(SiteSettings)
    /\ now = 0
    /\ positions = PositionIds
    /\ notify \in {{}, {1}}
    /\ posts = [k \in Kinds |->
                  IF k = "job" THEN <<[EarlierJob EXCEPT !.approved = TRUE]>>
                  ELSE <<>>]
    /\ reqs = [s \in Slots |-> IdleReq]
    /\ outbox = <<>>
    /\ shown = NoListing
    /\ adminApproved = {<<"job", 1>>}

NextFrame ==
    \/ \E kind \in Kinds : \E data \in SampleData(kind) : Post(1, kind, data)
    \/ \E kind \in Kinds : GetForm(1, kind)
    \/ ThankYou(1)
    \/ StampWhenPosted(1)
    \/ Save(1)
    \/ CountNotify(1)
    \/ ReadRecipients(1)
    \/ SendMail(1)
    \/ SendMailFails(1)
    \/ Index
    \/ \E kind \in Kinds, number \in PageNumbers : ListView(kind, number)
    \/ \E kind \in Kinds, i \in 1..MaxPosts, b \in BOOLEAN :
          AdminSetApproved(kind, i, b)

SpecFrame == InitFrame /\ [][NextFrame]_vars

\* the rows a table held are all still there, unchanged
RowsKept(kind) ==
    /\ Len(posts'[kind]) >= Len(posts[kind])
    /\ \A i \in 1..Len(posts[kind]) : posts'[kind][i] = posts[kind][i]

\* C16: a step of a submission request (the request's state changes) or of a
\* listing request (a listing is answered) keeps every stored row as it is;
\* a listing step and a step that answers with the form change no table; a
\* submission step adds at most one row, to the table of its own kind, and
\* leaves the table of the other kind as it is.
C16_OnlyTheAdministratorChangesStoredPosts ==
    [][(reqs' # reqs \/ shown'.view # "none") =>
          /\ \A k \in Kinds : RowsKept(k)
          /\ shown'.view # "none" => posts' = posts
          /\ \A s \in Slots :
                reqs'[s] # reqs[s] =>
                    /\ \A k \in Kinds \ {reqs'[s].kind} : posts'[k] = posts[k]
                    /\ Len(posts'[reqs'[s].kind]) <= Len(posts[reqs'[s].kind]) + 1
                    /\ reqs'[s].response = "form" => posts' = posts]_vars

\* C16 witness: an applicant submission has stored its row next to the
\* approved job post, which is as it was.
C16_Witness ==
    /\ reqs[1].kind = "applicant"
    /\ Stored(1)
    /\ reqs[1].response = "redirect"
    /\ posts["job"] = <<[EarlierJob EXCEPT !.approved = TRUE]>>
    /\ Len(posts["applicant"]) = 1

\* C17: default_position is the sole Position when exactly one exists and
\* none when there are no Positions or several, and the instance a
\* submission builds with models.JobPost() / models.ApplicantPost() has that
\* default as its position until the view assigns the posted one.
C17_SolePositionIsTheDefault ==
    /\ Cardinality(positions) = 1 => positions = {default_position}
    /\ Cardinality(positions) # 1 => default_position = NoPosition
    /\ (reqs[1].method = "POST" /\ reqs[1].post # <<>>) =>
          IF \E p \in PositionIds : positions = {p}
          THEN positions = {reqs[1].instance_position}
          ELSE reqs[1].instance_position = NoPosition

\* C17 witness: with Position 1 alone in the table an applicant post has
\* been built and stored, its instance having had Position 1 by default.
C17_Witness ==
    /\ positions = {1}
    /\ reqs[1].kind = "applicant"
    /\ reqs[1].saved = 1
    /\ reqs[1].instance_position = 1
    /\ default_position = 1

----------------------------------------------------------------------------
(* The loading of the package: the project's settings module configures any
   of the six settings, the import of jobboard supplies the rest, and the
   views then run with the result *)

SettingNames == DOMAIN SiteSettings

\* the settings modules that configure some of the settings
SomeConfigured ==
    {[n \in S |-> SiteSettings[n]] : S \in SUBSET SettingNames}

\* jobboard/__init__.py has run
Loaded == SettingNames \subseteq DOMAIN settings

\* import jobboard: the module body of jobboard/__init__.py
LoadPackage ==
    /\ settings' = LoadSettings(settings)
    /\ shown' = NoListing
    /\ UNCHANGED <<now, positions, notify, posts, reqs, outbox, adminApproved>>

InitSettings ==
    /\ settings \in SomeConfigured
    /\ now = 0
    /\ positions = PositionIds
    /\ notify = {}
    /\ posts = [k \in Kinds |-> <<>>]
    /\ reqs = [s \in Slots |-> IdleReq]
    /\ outbox = <<>>
    /\ shown = NoListing
    /\ adminApproved = {}

NextSettings ==
    \/ LoadPackage
    \/ Loaded /\ Post(1, "job", GoodJob)
    \/ Loaded /\ StampWhenPosted(1)
    \/ Loaded /\ Save(1)
    \/ Loaded /\ CountNotify(1)
    \/ Loaded /\ \E i \in 1..MaxPosts : AdminSetApproved("job", i, TRUE)
    \/ Loaded /\ Index
    \/ Loaded /\ \E number \in PageNumbers : ListView("job", number)

SpecSettings == InitSettings /\ [][NextSettings]_vars

\* the defaults as documented: server email, 30, 15, 15, 5, 5
DocumentedDefault(name) ==
    CASE name = "JOBBOARD_FROM_EMAIL" -> ServerEmail
      [] name = "JOBBOARD_POSTS_EXPIRE_DAYS" -> 30
      [] name = "JOBBOARD_APPLICANTS_PER_PAGE" -> 15
      [] name = "JOBBOARD_JOBS_PER_PAGE" -> 15
      [] name = "JOBBOARD_APPLICANTS_ON_INDEX" -> 5
      [] name = "JOBBOARD_JOBS_ON_INDEX" -> 5

\* C18: the load of the package leaves every setting that is configured as
\* it is and gives every other setting its default; no other step changes a
\* setting; and with the clock standing still a stored row expires the
\* configured number of days after today, the index returns no more jobs
\* than the configured on-index limit and a page of the job list no more
\* than the configured page size.
C18_DefaultsOnlyForUnconfiguredSettings ==
    [][/\ \A n \in SettingNames :
             /\ n \in DOMAIN settings => settings'[n] = settings[n]
             /\ n \notin DOMAIN settings =>
                   (n \in DOMAIN settings' => settings'[n] = DocumentedDefault(n))
       /\ settings' # settings => Loaded'
       /\ \A i \in (Len(posts["job"]) + 1)..Len(posts'["job"]) :
             posts'["job"][i].expiration_date
                 = Today + settings.JOBBOARD_POSTS_EXPIRE_DAYS
       /\ shown'.view = "index" =>
             Len(shown'.jobs) <= settings.JOBBOARD_JOBS_ON_INDEX
       /\ shown'.view = "job_list" =>
             Len(shown'.jobs) <= settings.JOBBOARD_JOBS_PER_PAGE]_vars

\* C18 witness: the site configured the expiry window and the job limit of
\* the index, both 1, and nothing else; the package has filled in the other
\* defaults, two approved jobs are stored expiring a day after today, and the
\* index has returned one of them.
C18_Witness ==
    /\ Loaded
    /\ settings.JOBBOARD_POSTS_EXPIRE_DAYS = 1
    /\ settings.JOBBOARD_JOBS_ON_INDEX = 1
    /\ settings.JOBBOARD_JOBS_PER_PAGE = 15
    /\ settings.JOBBOARD_APPLICANTS_ON_INDEX = 5
    /\ settings.JOBBOARD_APPLICANTS_PER_PAGE = 15
    /\ settings.JOBBOARD_FROM_EMAIL = ServerEmail
    /\ Len(posts["job"]) = 2
    /\ \A i \in 1..2 : posts["job"][i].approved /\ posts["job"][i].expiration_date = 1
    /\ shown.view = "index"
    /\ Len(shown.jobs) = 1

\* C19: in every listing response the posts of a kind come by when_posted
\* descending: of two consecutive posts the first has a when_posted greater
\* than or equal to the second's; and when a later page of a full list is
\* served right after an earlier page, no post of the later page has a
\* when_posted greater than that of a post of the earlier page.
C19_ListingsOrderedByWhenPostedDescending ==
    [][\A k \in Kinds :
          LET result == IF k = "job" THEN shown'.jobs ELSE shown'.applicants
          IN shown'.view \in {"index", ListViewOf(k)} =>
                /\ \A a \in 1..(Len(result) - 1) :
                      result[a].when_posted >= result[a + 1].when_posted
                /\ (shown.view = ListViewOf(k) /\ shown'.view = ListViewOf(k)
                      /\ shown.page < shown'.page) =>
                      \A a \in 1..Len(Shown(k)), b \in 1..Len(result) :
                          Shown(k)[a].when_posted >= result[b].when_posted]_vars

\* C19 witness: the applicant list returns two applicants on one page, the
\* one posted later first.
C19_Witness ==
    /\ shown.view = "applicant_list"
    /\ Len(shown.applicants) = 2
    /\ shown.applicants[1].when_posted > shown.applicants[2].when_posted
    /\ shown.applicants[1].id > shown.applicants[2].id

\* C20: every post the index returns is live, the index fills its slots as
\* far as there are live posts, and no live post it leaves out was posted
\* later than a post it returns.
C20_IndexReturnsTheMostRecentLivePosts ==
    shown.view = "index" =>
        \A k \in Kinds :
            LET limit == IF k = "job" THEN settings.JOBBOARD_JOBS_ON_INDEX
                         ELSE settings.JOBBOARD_APPLICANTS_ON_INDEX
            IN /\ IdsOf(Shown(k)) \subseteq LiveIds(k)
               /\ Cardinality(IdsOf(Shown(k))) = Min(limit, Cardinality(LiveIds(k)))
               /\ \A i \in LiveIds(k) \ IdsOf(Shown(k)) :
                     \A a \in 1..Len(Shown(k)) :
                         posts[k][i].when_posted <= Shown(k)[a].when_posted

\* C20 witness: two live jobs posted at different times and one slot on the
\* index, which returns the job posted later.
C20_Witness ==
    /\ shown.view = "index"
    /\ LiveIds("job") = {1, 2}
    /\ settings.JOBBOARD_JOBS_ON_INDEX = 1
    /\ Len(shown.jobs) = 1
    /\ \E i \in LiveIds("job") :
          posts["job"][i].when_posted < shown.jobs[1].when_posted


\* the name fields of a form, each with its length limit
NameFields(kind) ==
    IF kind = "job" THEN {"posters_name"} ELSE {"first_name", "last_name"}

NameLimit(f) ==
    CASE f = "posters_name" -> PostersNameMaxLength
      [] f = "first_name" -> FirstNameMaxLength
      [] f = "last_name" -> LastNameMaxLength

HasNewline(v) == \E i \in 1..Len(v) : v[i] = NL

\* the number of characters of v before its first newline
FirstLineLength(v) ==
    IF HasNewline(v)
    THEN (CHOOSE i \in 1..Len(v) : v[i] = NL /\ \A j \in 1..(i - 1) : v[j] # NL) - 1
    ELSE Len(v)

\* the stored names of a request's row hold the first line of what was posted
StoredNamesAreFirstLines(r) ==
    r.saved = 1 =>
        \A f \in NameFields(r.kind) :
            /\ IsFirstLineOf(posts[r.kind][r.id][f], Value(r.data, f))
            /\ ~HasNewline(posts[r.kind][r.id][f])

\* C21 as stated: the stored names are the first line of the posted values
\* and hold no newline, and a posted name of several lines is accepted
\* whenever its first line fits the length limit of the field.
C21_FirstLineWithinLimitIsAccepted ==
    LET r == reqs[1]
    IN r.method = "POST" =>
          /\ StoredNamesAreFirstLines(r)
          /\ \A f \in NameFields(r.kind) :
                (HasNewline(Value(r.data, f))
                    /\ FirstLineLength(Value(r.data, f)) <= NameLimit(f))
                  => f \notin DOMAIN r.errors

\* C21 amended: the stored names are the first line of the posted values and
\* hold no newline; the length limit is applied to the whole posted value, all
\* its lines and newlines counted, so that a posted name is in error exactly
\* when it is empty or longer than the limit as a whole.
C21_WholeValueWithinLimitIsAccepted ==
    LET r == reqs[1]
    IN r.method = "POST" =>
          /\ StoredNamesAreFirstLines(r)
          /\ r.response = "form" =>
                \A f \in NameFields(r.kind) :
                    f \in DOMAIN r.errors <=>
                        \/ Value(r.data, f) = <<>>
                        \/ Len(Value(r.data, f)) > NameLimit(f)
          /\ r.saved = 1 =>
                \A f \in NameFields(r.kind) :
                    Len(Value(r.data, f)) \in 1..NameLimit(f)

\* C21 witness: a stored job post whose posted name had two lines, next to
\* which the store keeps only the first.
C21_Witness ==
    /\ reqs[1].saved = 1
    /\ reqs[1].kind = "job"
    /\ reqs[1].data["posters_name"] = <<"A", NL, "B">>
    /\ posts["job"][reqs[1].id].posters_name = <<"A">>


\* C22 as stated: every stored job post has a non-empty posters_name and
\* every stored applicant post a non-empty first_name and last_name, whatever
\* was posted, a value that begins with a newline included.
C22_StoredNamesAreNotEmpty ==
    /\ \A i \in 1..Len(posts["job"]) : posts["job"][i].posters_name # <<>>
    /\ \A i \in 1..Len(posts["applicant"]) :
          /\ posts["applicant"][i].first_name # <<>>
          /\ posts["applicant"][i].last_name # <<>>


\* C23: a POST that omits position is answered with the form and 'This field
\* is required.' on position, and stores and sends nothing, however many
\* Position rows there are; the default position of the model is not used in
\* its place.
C23_OmittedPositionIsRejected ==
    (reqs[1].method = "POST" /\ Empty(reqs[1].data, "position")) =>
        /\ reqs[1].pc = "done"
        /\ reqs[1].response = "form"
        /\ "position" \in DOMAIN reqs[1].errors
        /\ reqs[1].errors["position"] = Required
        /\ reqs[1].saved = 0
        /\ reqs[1].sent = 0
        /\ outbox = <<>>
        /\ posts["applicant"] = <<>>
        /\ posts["job"] \in {<<>>, <<EarlierJob>>}

\* C23 witness: with exactly one Position in the table, so that the model's
\* default position is that row, an applicant POST whose only fault is the
\* missing position has been answered.
C23_Witness ==
    /\ reqs[1].method = "POST"
    /\ reqs[1].kind = "applicant"
    /\ reqs[1].pc = "done"
    /\ positions = {1}
    /\ default_position = 1
    /\ "position" \notin DOMAIN reqs[1].data
    /\ DOMAIN reqs[1].errors = {"position"}


\* C24 as stated: send_mail is only ever called with a non-empty recipient
\* list, whatever the administrator does to the NotifyEmail table while the
\* request runs, and no message without recipients is dispatched.
C24_SendIsCalledWithRecipients ==
    [][\A s \in Slots :
          /\ (reqs[s].pc = "send" /\ reqs'[s].pc # "send") =>
                reqs[s].recipients # <<>>
          /\ \A i \in 1..Len(outbox') : outbox'[i].to # <<>>]_vars


----------------------------------------------------------------------------
(* Concurrent submissions: each slot serves one valid POST, the steps of the
   two views interleaved in any order, against tables nobody else changes
   and a mail transport that works *)

ValidData(kind) ==
    IF kind = "job" THEN {GoodJob, FullJob} ELSE {GoodApplicant, FullApplicant}

InitConcurrent ==
    /\ settings = LoadSettings(SiteSettings)
    /\ now = 0
    /\ positions = PositionIds
    /\ notify \in {{}, {1}, NotifyIds}
    /\ posts = [k \in Kinds |-> <<>>]
    /\ reqs = [s \in Slots |-> IdleReq]
    /\ outbox = <<>>
    /\ shown = NoListing
    /\ adminApproved = {}

\* the steps of the view that serves the request of slot s, after the POST
\* has arrived
Serve(s) ==
    \/ StampWhenPosted(s)
    \/ Save(s)
    \/ CountNotify(s)
    \/ ReadRecipients(s)
    \/ SendMail(s)

NextConcurrent ==
    \/ \E s \in Slots, kind \in Kinds : \E data \in ValidData(kind) :
          reqs[s].pc = "idle" /\ Post(s, kind, data)
    \/ \E s \in Slots : Serve(s)

\* every request is served by a worker that runs its view to the return
SpecConcurrent ==
    /\ InitConcurrent
    /\ [][NextConcurrent]_vars
    /\ \A s \in Slots : WF_vars(Serve(s))

\* the requests that have been posted, and those that have stored their row
PostedSlots == {s \in Slots : reqs[s].method = "POST"}
SavedSlots == {s \in Slots : reqs[s].saved = 1}

\* the row of a request holds the cleaned values of the request's own data
HoldsOwnValues(s) ==
    LET r == reqs[s]
        row == posts[r.kind][r.id]
    IN /\ r.id \in 1..Len(posts[r.kind])
       /\ row.id = r.id
       /\ [row EXCEPT !.id = 0, !.when_posted = 0]
             = [PostFrom(r.kind, CleanedData(r.kind, r.data))
                   EXCEPT !.id = 0, !.when_posted = 0]

\* C25: however the steps of k concurrent valid submissions interleave, each
\* request runs to its redirect; the tables hold exactly one row for each
\* request that has saved, under pairwise distinct keys, each row with the
\* values of its own request; and once all have ended there are k rows and,
\* with recipients registered, k emails, one about each row (none with no
\* recipient registered).
C25_ConcurrentSubmissionsAreIndependent ==
    /\ [](/\ TotalPosts = Cardinality(SavedSlots)
          /\ \A s \in SavedSlots : HoldsOwnValues(s)
          /\ \A s, t \in SavedSlots :
                s # t => <<reqs[s].kind, reqs[s].id>> # <<reqs[t].kind, reqs[t].id>>
          /\ (\A s \in PostedSlots : reqs[s].pc = "done") =>
                /\ TotalPosts = Cardinality(PostedSlots)
                /\ \A s \in PostedSlots : reqs[s].response = "redirect"
                /\ Len(outbox) = IF notify = {} THEN 0 ELSE Cardinality(PostedSlots)
                /\ \A s \in PostedSlots :
                      Cardinality(MessagesAbout(reqs[s].kind, reqs[s].id))
                          = IF notify = {} THEN 0 ELSE 1)
    /\ \A s \in Slots : (reqs[s].method = "POST") ~> (reqs[s].pc = "done")

\* C25 witness: two requests of the same kind with different data have both
\* ended, the request of slot 2 having saved before that of slot 1, and two
\* emails were sent.
C25_Witness ==
    /\ \A s \in Slots : reqs[s].pc = "done" /\ reqs[s].kind = "job"
    /\ reqs[1].data = GoodJob
    /\ reqs[2].data = FullJob
    /\ reqs[1].id = 2
    /\ reqs[2].id = 1
    /\ Len(outbox) = 2
    /\ notify = NotifyIds


\* C26: at every moment there are at most as many emails in the outbox as
\* rows the submissions have stored, every email is about a stored post and
\* no two are about the same post; and a POST that fails validation is
\* answered, in the step that validates it, without a row stored or an email
\* sent.
C26_EmailsOnlyFollowAStoredPost ==
    /\ [](/\ Len(outbox) <= TotalPosts
          /\ \A i \in 1..Len(outbox) :
                /\ outbox[i].id \in 1..Len(posts[outbox[i].kind])
                /\ \A j \in 1..Len(outbox) :
                      (outbox[j].kind = outbox[i].kind /\ outbox[j].id = outbox[i].id)
                          => j = i
          /\ \A s \in Slots :
                (reqs[s].method = "POST" /\ ~IsValid(reqs[s].kind, reqs[s].data)) =>
                    /\ reqs[s].pc = "done"
                    /\ reqs[s].response = "form"
                    /\ reqs[s].saved = 0
                    /\ reqs[s].sent = 0)
    /\ [][\A s \in Slots :
            (reqs'[s] # reqs[s] /\ reqs'[s].method = "POST"
                /\ ~IsValid(reqs'[s].kind, reqs'[s].data)) =>
                  /\ outbox' = outbox
                  /\ posts' = posts]_vars

\* C26 witness: one post is stored and its email is in the outbox; then,
\* with recipients registered, a POST that fails validation was answered.
C26_Witness ==
    /\ TotalPosts = 1
    /\ Len(outbox) = 1
    /\ notify # {}
    /\ reqs[1].method = "POST"
    /\ reqs[1].response = "form"
    /\ reqs[1].errors # <<>>


\* a step that serves a GET: the form of a submit view or the thank-you page
\* is answered, or a listing view (a page that does not exist included)
ServesGet ==
    \/ \E s \in Slots : reqs'[s] # reqs[s] /\ reqs'[s].method = "GET"
    \/ shown'.view # "none"

\* C27: a GET of the index, the job list, the applicant list, either submit
\* form or the thank-you page leaves the four tables and the outbox as they
\* are; and a step that adds a row to a post table or a message to the
\* outbox is a step of a POST to a submit view, at its save or its send.
C27_GetRequestsChangeNothing ==
    [][/\ ServesGet =>
            /\ posts' = posts
            /\ positions' = positions
            /\ notify' = notify
            /\ outbox' = outbox
       /\ ((\E k \in Kinds : Len(posts'[k]) # Len(posts[k])) \/ outbox' # outbox) =>
            \E s \in Slots :
                /\ reqs[s].method = "POST"
                /\ reqs'[s].method = "POST"
                /\ reqs[s].pc \in {"save", "send"}
                /\ reqs'[s].pc # reqs[s].pc]_vars

\* C27 witness: the thank-you page has been served while the store holds the
\* new applicant post and the outbox its notification.
C27_Witness ==
    /\ reqs[1].method = "GET"
    /\ reqs[1].response = "thank_you"
    /\ Len(posts["applicant"]) = 1
    /\ Len(outbox) = 1
    /\ notify # {}


AddressesTo(m) == {m.to[j] : j \in 1..Len(m.to)}
AddressesOf(rows) == {NotifyAddress[n] : n \in rows}

\* C29: every message in the outbox has settings.JOBBOARD_FROM_EMAIL as its
\* sender and registered addresses only as its recipients; and a message
\* enters the outbox from a request at its send step, addressed once to each
\* address of the NotifyEmail rows the request read for it, none missing and
\* none added.
C29_SenderAndRecipientsOfTheEmail ==
    /\ [](\A i \in 1..Len(outbox) :
            /\ outbox[i].from_email = settings.JOBBOARD_FROM_EMAIL
            /\ AddressesTo(outbox[i]) \subseteq AddressesOf(NotifyIds)
            /\ AddressesTo(outbox[i]) # {})
    /\ [][\A i \in (Len(outbox) + 1)..Len(outbox') :
            \E s \in Slots :
                /\ reqs[s].pc = "send"
                /\ reqs'[s].sent = reqs[s].sent + 1
                /\ outbox'[i].kind = reqs[s].kind
                /\ outbox'[i].id = reqs[s].id
                /\ outbox'[i].from_email = settings.JOBBOARD_FROM_EMAIL
                /\ AddressesTo(outbox'[i]) = AddressesOf(reqs[s].registered)
                /\ Len(outbox'[i].to) = Cardinality(reqs[s].registered)]_vars

\* C29 witness: with a sender configured, the email about a job whose
\* submitter gave an address of their own went to the two registered
\* recipients.
C29_Witness ==
    /\ settings.JOBBOARD_FROM_EMAIL = SiteSettings.JOBBOARD_FROM_EMAIL
    /\ settings.JOBBOARD_FROM_EMAIL # ServerEmail
    /\ reqs[1].pc = "done"
    /\ reqs[1].data = FullJob
    /\ reqs[1].sent = 1
    /\ Len(outbox) = 1
    /\ outbox[1].from_email = "jobs@example.com"
    /\ AddressesTo(outbox[1]) = {"linux@holla.com", "boss@example.com"}


====
